---- MODULE Spec2Model ----
(***************************************************************************)
(* cvgen: the command line generator (src/src/generate.js).                *)
(*                                                                         *)
(* One run of `jobpare-cv generate`: CVGenerator.generate is an async      *)
(* function, so the run is a single thread of control that suspends at     *)
(* each await.  Every action below is one stage of generate, with the      *)
(* outcome of the file system or of the headless browser chosen by the     *)
(* environment.  Strings are sequences of one-character strings, so that   *)
(* endsWith, replace and + are computed as JavaScript computes them.       *)
(***************************************************************************)
EXTENDS Naturals, Sequences, FiniteSets

\* Longest output path of the model, counted in segments of Segments.
MaxSegs == 3

\* Longest array handed to the join helper.
MaxJoinLen == 3

\* Longest dot path handed to getNestedValue and setNestedValue, in keys.
MaxPathLen == 2

(***************************************************************************)
(* Strings                                                                 *)
(***************************************************************************)
PDF == <<".", "p", "d", "f">>
HTML == <<".", "h", "t", "m", "l">>
CV == <<"c", "v">>

\* The pieces output paths are built from.
Segments == {CV, PDF, HTML}

\* options.output when -o is absent: JavaScript's undefined (no path is a
\* one-element sequence, every element of a path being a single character).
NoPath == <<"undefined">>

RECURSIVE PathsOfSegs(_)
PathsOfSegs(n) ==
    IF n = 0 THEN {<<>>}
    ELSE LET shorter == PathsOfSegs(n - 1)
         IN shorter \cup {p \o s : p \in shorter, s \in Segments}

\* Every value options.output takes in the model: undefined, "" and the
\* paths of at most MaxSegs segments.
Outputs == {NoPath} \cup PathsOfSegs(MaxSegs)

\* JavaScript truthiness of options.output: undefined and "" are falsy.
Truthy(p) == p # NoPath /\ p # <<>>

\* String.prototype.endsWith
EndsWith(s, suf) ==
    /\ Len(s) >= Len(suf)
    /\ SubSeq(s, Len(s) - Len(suf) + 1, Len(s)) = suf

\* String.prototype.indexOf, 1-based; 0 when pat does not occur.
IndexOf(s, pat) ==
    LET hits == {i \in 1..Len(s) : /\ i + Len(pat) - 1 <= Len(s)
                                   /\ SubSeq(s, i, i + Len(pat) - 1) = pat}
    IN IF hits = {} THEN 0
       ELSE CHOOSE i \in hits : \A j \in hits : i <= j

\* String.prototype.replace with a string pattern: the first occurrence only.
ReplaceFirst(s, pat, rep) ==
    LET i == IndexOf(s, pat)
    IN IF i = 0 THEN s
       ELSE SubSeq(s, 1, i - 1) \o rep \o SubSeq(s, i + Len(pat), Len(s))

(***************************************************************************)
(* Documents, templates and rendering                                      *)
(***************************************************************************)
\* What data.personal_info can be: absent, present but falsy (null, ""),
\* a truthy non-object, an object without name, an object whose name is
\* falsy, an object with a name.
PiKinds == {"absent", "falsy", "text", "obj_noname", "obj_falsyname", "obj_named"}
\* What data.summary can be: absent, present but falsy, truthy.
SummaryKinds == {"absent", "falsy", "present"}

\* The JSON values fs.readJson can return: null, a value without
\* properties of its own (number, string, boolean, array), an object.
Docs ==
    {[kind |-> "null", pi |-> "absent", summary |-> "absent"],
     [kind |-> "scalar", pi |-> "absent", summary |-> "absent"]}
    \cup [kind : {"object"}, pi : PiKinds, summary : SummaryKinds]

\* `data` before loadJsonData has returned.
NoDoc == [kind |-> "none", pi |-> "absent", summary |-> "absent"]

\* What fs.readJson can reject with: the file does not exist, its content is
\* not JSON, or any other I/O failure (a directory, no permission).
ReadFailures == {"ENOENT", "SyntaxError", "EISDIR", "EACCES"}

\* Classify without the SyntaxError branch.
ClassifyReadErrorNoSyntax(e) ==
    IF e = "ENOENT" THEN "InputNotFound" ELSE "Unknown"

\* The catch block of loadJsonData: the error generate rejects with.
ClassifyReadError(e) ==
    IF e = "ENOENT" THEN "InputNotFound"
    ELSE IF e = "SyntaxError" THEN "InputMalformed"
    ELSE "Unknown"

\* !data[field] for the two required fields.
FieldFalsy(d, field) ==
    IF field = "personal_info" THEN d.pi \in {"absent", "falsy"}
    ELSE d.summary \in {"absent", "falsy"}

\* data.personal_info && !data.personal_info.name
NameMissing(d) == d.pi \in {"text", "obj_noname", "obj_falsyname"}

requiredFields == <<"personal_info", "summary">>

\* data[field] raises a TypeError when data is null.
ValidateThrows(d) == d.kind = "null"

\* Warnings with the name check made before the loop over requiredFields.
WarningsNameFirst(d) ==
    LET req(i) == IF FieldFalsy(d, requiredFields[i])
                  THEN <<requiredFields[i]>> ELSE <<>>
    IN (IF NameMissing(d) THEN <<"name">> ELSE <<>>) \o req(1) \o req(2)

\* The warnings validateData pushes, in order.
Warnings(d) ==
    LET req(i) == IF FieldFalsy(d, requiredFields[i])
                  THEN <<requiredFields[i]>> ELSE <<>>
    IN req(1) \o req(2) \o (IF NameMissing(d) THEN <<"name">> ELSE <<>>)

\* Template files: one that interpolates name and summary, one that calls
\* a helper nobody registered (Handlebars raises when it is rendered).
Templates == {"name_summary", "unknown_helper"}
NoTemplate == "none"

RenderThrows(t, d) == t = "unknown_helper"

\* template(data): the text Handlebars produces.
Render(t, d) ==
    <<t,
      IF d.pi = "obj_named" THEN "name" ELSE "",
      IF d.summary = "present" THEN "summary" ELSE "">>

NoHtml == <<>>

(***************************************************************************)
(* Output dispatch                                                         *)
(***************************************************************************)
\* OutputMode without the htmlOnly test of the first branch.
OutputModeNoHtmlOnly(o) ==
    IF Truthy(o.output) /\ EndsWith(o.output, HTML) THEN "html"
    ELSE IF Truthy(o.output) /\ EndsWith(o.output, PDF) THEN "pdf"
    ELSE IF Truthy(o.output) THEN "default"
    ELSE "none"

\* OutputMode with the .pdf branch tested first.
OutputModePdfFirst(o) ==
    IF Truthy(o.output) /\ EndsWith(o.output, PDF) THEN "pdf"
    ELSE IF o.htmlOnly \/ (Truthy(o.output) /\ EndsWith(o.output, HTML)) THEN "html"
    ELSE IF Truthy(o.output) THEN "default"
    ELSE "none"

\* The branch generate takes after rendering.
OutputMode(o) ==
    IF o.htmlOnly \/ (Truthy(o.output) /\ EndsWith(o.output, HTML)) THEN "html"
    ELSE IF Truthy(o.output) /\ EndsWith(o.output, PDF) THEN "pdf"
    ELSE IF Truthy(o.output) THEN "default"
    ELSE "none"

\* DefaultHtmlPath without the appended extension.
DefaultHtmlPathBare(p) == p

\* outputPath + '.html'
DefaultHtmlPath(p) == p \o HTML

\* outputPath.replace('.pdf', '.html')
FallbackHtmlPath(p) == ReplaceFirst(p, PDF, HTML)

\* path.dirname(undefined) raises; writeFile('') fails with ENOENT.
WriteMustFail(p) == ~Truthy(p)

\* ClosesBrowser of a generatePdf whose finally block never closes the browser.
ClosesBrowserNever(b) == FALSE

\* `if (browser)` in the finally block of generatePdf.
ClosesBrowser(b) == b # "none"

(***************************************************************************)
(* The join helper (src/src/generate.js and src/docs/js/editor.js)         *)
(***************************************************************************)
\* The strings the arrays given to join hold; "" is one of them.
JoinElems == {<<"a">>, <<"b">>, <<"c">>, <<>>}

RECURSIVE SeqsUpTo(_, _)
SeqsUpTo(S, n) ==
    IF n = 0 THEN {<<>>}
    ELSE LET shorter == SeqsUpTo(S, n - 1)
         IN shorter \cup {Append(q, x) : q \in shorter, x \in S}

\* What a template can hand to {{join x}}: nothing, null, a string, a
\* number, an object, or an array of strings.
JoinArgs ==
    [kind : {"undefined", "null", "string", "number", "object"}, items : {<<>>}]
    \cup [kind : {"array"}, items : SeqsUpTo(JoinElems, MaxJoinLen)]

\* The argument and result of a helper that has not been called.
NoJoinArg == [kind |-> "none", items |-> <<>>]
NoJoinOut == [cli |-> <<"-">>, editor |-> <<"-">>]

\* !array || !Array.isArray(array)
NotAnArray(v) == v.kind # "array"

\* Array.prototype.join of an array of strings.
RECURSIVE ArrayJoin(_, _)
ArrayJoin(items, sep) ==
    IF Len(items) = 0 THEN <<>>
    ELSE IF Len(items) = 1 THEN items[1]
    ELSE items[1] \o sep \o ArrayJoin(Tail(items), sep)

\* JoinCli joining with a comma and no space.
JoinCliNoSpace(v) ==
    IF NotAnArray(v) THEN <<>> ELSE ArrayJoin(v.items, <<",">>)

\* The helper loadTemplate registers.
JoinCli(v) ==
    IF NotAnArray(v) THEN <<>> ELSE ArrayJoin(v.items, <<",", " ">>)

\* The helper generatePreview registers.
JoinEditor(v) ==
    IF NotAnArray(v) THEN <<>> ELSE ArrayJoin(v.items, <<",", " ">>)

(***************************************************************************)
(* JSON values and the dot-path accessors (src/docs/js/editor.js)          *)
(*                                                                         *)
(* A value is a function from the paths of its nodes to tags: "obj" for    *)
(* an object, otherwise the scalar there.  <<>> is the path of the root.   *)
(***************************************************************************)
Leaf(tag) == [p \in {<<>>} |-> tag]

\* JavaScript's undefined; {} ; null.
Undefined == Leaf("undefined")
EmptyObj == Leaf("obj")
Null == Leaf("null")

Tag(m) == m[<<>>]

\* The scalars that are falsy: null and the empty string.
FalsyTags == {"undefined", "null", ""}

IsPrefix(p, q) == Len(p) <= Len(q) /\ SubSeq(q, 1, Len(p)) = p

\* The value below path p of m (p a node of m).
Subtree(m, p) ==
    [q \in {SubSeq(r, Len(p) + 1, Len(r)) : r \in {r \in DOMAIN m : IsPrefix(p, r)}}
        |-> m[p \o q]]

\* m with the value at path p replaced by v (removed when v is undefined).
Graft(m, p, v) ==
    LET kept == {r \in DOMAIN m : ~IsPrefix(p, r)}
        added == IF v = Undefined THEN {} ELSE {p \o q : q \in DOMAIN v}
    IN [r \in kept \cup added |->
          IF r \in added THEN v[SubSeq(r, Len(p) + 1, Len(r))] ELSE m[r]]

\* current[key] of the reduce callbacks: the child, or undefined when the
\* node is absent (a scalar has no properties of its own).
Child(m, p) == IF p \in DOMAIN m THEN Subtree(m, p) ELSE Undefined

\* getNestedValue with `current[key] != undefined`, which also drops null.
GetNestedValueLoose(m, path) ==
    IF path \in DOMAIN m /\ m[path] # "null" THEN Subtree(m, path) ELSE Undefined

\* getNestedValue(obj, path): every step yields current[key] unless current
\* is falsy or has no such key, and undefined from then on.
GetNestedValue(m, path) == Child(m, path)

\* The proper prefixes of a path, the root included.
ProperPrefixes(path) == {SubSeq(path, 1, n) : n \in 0..(Len(path) - 1)}

\* setNestedValue raises a TypeError: obj is null or undefined, or the walk
\* reaches a truthy scalar (class bodies are strict code, in which creating a
\* property on a primitive raises).
SetNestedThrows(m, path) ==
    \/ Tag(m) \in FalsyTags
    \/ \E q \in ProperPrefixes(path) :
          q \in DOMAIN m /\ m[q] # "obj" /\ (q = <<>> \/ m[q] \notin FalsyTags)

\* The object after setNestedValue(obj, path, value) returned: every absent or
\* falsy intermediate is replaced by {}, then target[lastKey] = value.
RECURSIVE SetWalk(_, _, _, _)
SetWalk(m, path, n, value) ==
    IF n = Len(path) THEN Graft(m, path, value)
    ELSE LET q == SubSeq(path, 1, n)
         IN IF q \in DOMAIN m /\ m[q] = "obj"
            THEN SetWalk(m, path, n + 1, value)
            ELSE SetWalk(Graft(m, q, EmptyObj), path, n + 1, value)

SetNestedValue(m, path, value) == SetWalk(m, path, 1, value)

\* The keys and scalars of the documents the accessors are tried on.
NvKeys == {"a", "b"}
NvScalars == {Null, Leaf(""), Leaf("v1")}

\* An object with the given children (undefined: no such key).
ObjectOf(ca, cb) == Graft(Graft(EmptyObj, <<"a">>, ca), <<"b">>, cb)

\* Objects of scalars; objects of scalars and such objects; every document.
NvFlat == {ObjectOf(ca, cb) : ca \in NvScalars \cup {Undefined},
                              cb \in NvScalars \cup {Undefined}}
NvDocs ==
    NvScalars
    \cup {ObjectOf(ca, cb) : ca \in NvScalars \cup NvFlat \cup {Undefined},
                             cb \in NvScalars \cup NvFlat \cup {Undefined}}

NvPaths == SeqsUpTo(NvKeys, MaxPathLen) \ {<<>>}
NvValues == {Null, Leaf("v1"), Leaf("v2"), EmptyObj, ObjectOf(Leaf("v1"), Undefined)}

\* The arguments and result of accessors that have not been called.
NoNvArgs == [obj |-> Undefined, path |-> <<>>, value |-> Undefined]
NoNvOut == [threw |-> FALSE, obj |-> Undefined, got |-> Undefined]

(***************************************************************************)
(* The browser editor (src/docs/js/editor.js)                              *)
(*                                                                         *)
(* A JSON text is represented by what it denotes: ok with the value it     *)
(* parses to, or not ok with its characters.                               *)
(***************************************************************************)
MaxLoads == 2
MaxEdits == 2
MaxReloads == 1

Roles == {"backend", "frontend"}

\* What ./cv-data/<role>/cv-schema.json holds.
RoleDoc(r) ==
    Graft(Graft(EmptyObj, <<"personal_info">>, Graft(EmptyObj, <<"name">>, Leaf(r))),
          <<"skills">>, EmptyObj)

JsonText(v) == [ok |-> TRUE, json |-> v, raw |-> ""]
BadText(chars) == [ok |-> FALSE, json |-> Undefined, raw |-> chars]

\* JSON.stringify of a value that JSON.parse and string assignments built.
JsonStringify(v) == JsonText(v)

\* JSON.parse returning null for text that is not JSON.
JsonParseLenient(t) ==
    [threw |-> FALSE, value |-> IF t.ok THEN t.json ELSE Null]

\* JSON.parse: the value, or a SyntaxError.
JsonParse(t) ==
    [threw |-> ~t.ok, value |-> IF t.ok THEN t.json ELSE Undefined]

\* localStorage.getItem of a key that was never set gives null, which
\* loadFromStorage treats as it treats the empty text.
NoItem == BadText("")
EmptyStorage == [currentRole |-> NoItem, cvData |-> NoItem]

\* loadFromStorage(key), given the item under cvgen_<key>.
LoadFromStorage(item) ==
    IF item = NoItem THEN Null
    ELSE IF JsonParse(item).threw THEN Null
    ELSE JsonParse(item).value

\* saveToStorage(key, data), given the storage.
SaveToStorage(store, key, v) == [store EXCEPT ![key] = JsonStringify(v)]

TopKeys(m) == {p[1] : p \in {q \in DOMAIN m : Len(q) = 1}}

\* The own properties an object spread copies (none of null or undefined).
Spread(v) == IF Tag(v) = "obj" THEN v ELSE EmptyObj

\* { ...a, ...b }
Merge(a, b) ==
    LET sa == Spread(a)
        sb == Spread(b)
        kept == {r \in DOMAIN sa : Len(r) >= 1 /\ r[1] \notin TopKeys(sb)}
    IN [r \in kept \cup DOMAIN sb |-> IF r \in DOMAIN sb THEN sb[r] ELSE sa[r]]

\* The children of { ...a, ...b } that are the very objects schema holds,
\* given the paths sh at which a and schema held the same object.
MergeShared(a, b, sh) ==
    {<<k>> : k \in {k \in TopKeys(Spread(a)) \ TopKeys(Spread(b)) :
                       a[<<k>>] = "obj" /\ (<<>> \in sh \/ <<k>> \in sh)}}

\* The document a user types or loads that names one person.
AnnDoc == Graft(EmptyObj, <<"personal_info">>, Graft(EmptyObj, <<"name">>, Leaf("Ann")))

\* Texts typed into the JSON editor or read from a chosen file.
JsonInputs == {JsonText(Null), JsonText(EmptyObj), JsonText(AnnDoc), BadText("{oops")}

\* A rejected file.text(), and no file chosen.
Unreadable == BadText("NotReadableError")
NoFile == BadText("undefined")

\* Form fields of getFormSections, and what is typed into them.
FormFields ==
    {[name |-> <<"personal_info", "name">>, textarea |-> FALSE],
     [name |-> <<"skills">>, textarea |-> TRUE]}
FormInputs(field) ==
    IF field.textarea THEN {JsonText(EmptyObj), BadText("Go, SQL")}
    ELSE {BadText("Ann")}

\* The value updateDataFromForm writes for a field's text.
FormValue(field, text) ==
    IF field.textarea /\ Len(field.name) = 1 /\ ~JsonParse(text).threw
    THEN JsonParse(text).value
    ELSE Leaf(text.raw)

\* schema after setNestedValue(this.cvData, path, value) made cvData `after`,
\* given the paths sh at which cvData and schema held the same object.
SchemaAfterSet(sch, after, path, sh) ==
    IF <<>> \in sh THEN after
    ELSE IF Len(path) >= 2 /\ <<path[1]>> \in sh
         THEN Graft(sch, <<path[1]>>, Subtree(after, <<path[1]>>))
         ELSE sch

\* The paths at which cvData and schema hold the same object after it.
SharedAfterSet(path, sh) ==
    IF <<>> \in sh \/ Len(path) >= 2 THEN sh ELSE sh \ {<<path[1]>>}

\* What the handlers show with showValidationMessage.
InvalidJsonMessage == "Invalid JSON format"
FileErrorMessage == "Error loading file"
FileLoadedMessage == "File loaded successfully!"
RoleErrorMessage == "Error loading role data"

\* A pending loadRole(role) call: the await it is at.
LoadStages == {"fetch", "json", "template", "text", "done", "failed"}
Pending(load) == load.stage \in {"fetch", "json", "template", "text"}

VARIABLES
    opts,       \* options of the run: output, htmlOnly, validateOnly
    pc,         \* the stage generate is at
    data,       \* the parsed document
    warnings,   \* what validateData printed
    template,   \* the compiled template
    html,       \* htmlContent
    files,      \* files this run has written: [path, fmt, body]
    writes,     \* every saveHtml call of the run: [path, body, ok]
    browser,    \* generatePdf's `browser`: none, open, closed
    launches,   \* calls of puppeteer.launch
    pages,      \* pages the browser opened
    pdfCalls,   \* calls of page.pdf: the paths they were given
    caught,     \* the renderer step whose failure the catch block caught
    pending,    \* how generatePdf ends after its finally block
    outcome,    \* HTML_WRITTEN, PDF_WRITTEN, PDF_FAILED_FALLBACK_TO_HTML
    error,      \* the error the run failed with
    readError,  \* what fs.readJson rejected with
    exitCode,   \* the exit status of the process
    joinArg,    \* the argument the join helpers are called with
    joinOut,    \* what the two join helpers returned
    nvArgs,     \* obj, path and value the accessors are called with
    nvOut,      \* obj after setNestedValue, and what getNestedValue then gets
    initPc,     \* where init is: off (no page), awaitLoadRole, done
    currentRole,
    cvData,
    schema,
    editorTemplate, \* this.template of the editor: "" until fetched
    shared,     \* the paths at which cvData and schema are one object
    localStorage,   \* the items under cvgen_currentRole and cvgen_cvData
    loads,      \* the loadRole calls of this page, in call order
    formReady,  \* generateForm has put the form fields on the page
    last,       \* the handler that ran last: its input and its message
    edits,      \* edit operations so far
    reloads     \* page reloads so far

cliVars == <<opts, pc, data, warnings, template, html, files, writes, browser,
             launches, pages, pdfCalls, caught, pending, outcome, error,
             readError, exitCode>>

pureVars == <<joinArg, joinOut, nvArgs, nvOut>>

edVars == <<initPc, currentRole, cvData, schema, editorTemplate, shared,
            localStorage, loads, formReady, last, edits, reloads>>

\* What a run of generate leaves alone.
nonCliVars == <<pureVars, edVars>>

vars == <<cliVars, pureVars, edVars>>

pdfVars == <<browser, launches, pages, pdfCalls, caught, pending>>

\* No helper or accessor call is under way.
PureIdle ==
    /\ joinArg = NoJoinArg
    /\ joinOut = NoJoinOut
    /\ nvArgs = NoNvArgs
    /\ nvOut = NoNvOut

\* What a handler leaves in `last`.
Ran(op, text, shown) == [op |-> op, text |-> text, shown |-> shown]

\* No editor page is open.
EdOff ==
    /\ initPc = "off"
    /\ currentRole = "backend"
    /\ cvData = EmptyObj
    /\ schema = EmptyObj
    /\ editorTemplate = ""
    /\ shared = {}
    /\ localStorage = EmptyStorage
    /\ loads = <<>>
    /\ formReady = FALSE
    /\ last = Ran("none", NoItem, "")
    /\ edits = 0
    /\ reloads = 0

\* generate has been called and has done nothing yet.
CliStart ==
    /\ pc = "START"
    /\ data = NoDoc
    /\ warnings = <<>>
    /\ template = NoTemplate
    /\ html = NoHtml
    /\ files = {}
    /\ writes = <<>>
    /\ browser = "none"
    /\ launches = 0
    /\ pages = 0
    /\ pdfCalls = <<>>
    /\ caught = "none"
    /\ pending = "none"
    /\ outcome = "none"
    /\ error = "none"
    /\ readError = "none"
    /\ exitCode = "running"

Init ==
    /\ opts \in [output : Outputs, htmlOnly : BOOLEAN, validateOnly : BOOLEAN]
    /\ CliStart
    /\ PureIdle
    /\ EdOff

\* Fail of a command action whose catch prints the message and returns.
FailExitsZero(e) ==
    /\ pc' = "FAILED"
    /\ error' = e
    /\ exitCode' = "zero"

\* generate rejects: the action's catch prints the message and exits 1.
Fail(e) ==
    /\ pc' = "FAILED"
    /\ error' = e
    /\ exitCode' = "nonzero"

\* generate returns: the process ends with status 0.
Finish ==
    /\ pc' = "DONE"
    /\ exitCode' = "zero"
    /\ error' = error

\* fs.writeFile(path, body) succeeded.
Written(path, fmt, body) ==
    {f \in files : f.path # path} \cup {[path |-> path, fmt |-> fmt, body |-> body]}

\* await this.loadJsonData(inputPath)
LoadJsonData ==
    /\ pc = "START"
    /\ UNCHANGED nonCliVars
    /\ \/ \E e \in ReadFailures :
            /\ readError' = e
            /\ Fail(ClassifyReadError(e))
            /\ data' = data
       \/ \E d \in Docs :
            /\ data' = d
            /\ pc' = "LOADED"
            /\ UNCHANGED <<error, readError, exitCode>>
    /\ UNCHANGED <<opts, warnings, template, html, files, writes, outcome>>
    /\ UNCHANGED pdfVars

\* this.validateData(data); if (validateOnly) return;
ValidateData ==
    /\ pc = "LOADED"
    /\ UNCHANGED nonCliVars
    /\ readError' = readError
    /\ IF ValidateThrows(data)
       THEN /\ Fail("TypeError")
            /\ warnings' = warnings
       ELSE /\ warnings' = Warnings(data)
            /\ IF opts.validateOnly
               THEN Finish
               ELSE /\ pc' = "VALIDATED"
                    /\ UNCHANGED <<error, exitCode>>
    /\ UNCHANGED <<opts, data, template, html, files, writes, outcome>>
    /\ UNCHANGED pdfVars

\* await this.loadTemplate(templatePath)
LoadTemplate ==
    /\ pc = "VALIDATED"
    /\ UNCHANGED nonCliVars
    /\ readError' = readError
    /\ \/ \E e \in {"TemplateNotFound", "TemplateLoadError"} :
            /\ Fail(e)
            /\ template' = template
       \/ \E t \in Templates :
            /\ template' = t
            /\ pc' = "TEMPLATE"
            /\ UNCHANGED <<error, exitCode>>
    /\ UNCHANGED <<opts, data, warnings, html, files, writes, outcome>>
    /\ UNCHANGED pdfVars

\* this.renderHtml(template, data)
RenderHtml ==
    /\ pc = "TEMPLATE"
    /\ UNCHANGED nonCliVars
    /\ readError' = readError
    /\ IF RenderThrows(template, data)
       THEN /\ Fail("RenderError")
            /\ html' = html
       ELSE /\ html' = Render(template, data)
            /\ pc' = "RENDERED"
            /\ UNCHANGED <<error, exitCode>>
    /\ UNCHANGED <<opts, data, warnings, template, files, writes, outcome>>
    /\ UNCHANGED pdfVars

\* saveHtml(htmlContent, path): ensureDir and writeFile either both succeed
\* or one of them raises, which saveHtml rethrows as an Error.
SaveHtmlOk(path) ==
    /\ ~WriteMustFail(path)
    /\ files' = Written(path, "html", html)
    /\ writes' = Append(writes, [path |-> path, body |-> html, ok |-> TRUE])

SaveHtmlFails(path) ==
    /\ files' = files
    /\ writes' = Append(writes, [path |-> path, body |-> html, ok |-> FALSE])

\* The path the two HTML branches of generate hand to saveHtml.
HtmlTarget(o) ==
    IF OutputMode(o) = "html" THEN o.output ELSE DefaultHtmlPath(o.output)

\* if (htmlOnly || ...endsWith('.html')) await this.saveHtml(htmlContent, outputPath)
\* else if (outputPath) await this.saveHtml(htmlContent, outputPath + '.html')
GenerateHtml ==
    /\ pc = "RENDERED"
    /\ UNCHANGED nonCliVars
    /\ readError' = readError
    /\ OutputMode(opts) \in {"html", "default"}
    /\ \/ /\ SaveHtmlOk(HtmlTarget(opts))
          /\ outcome' = "HTML_WRITTEN"
          /\ Finish
       \/ /\ SaveHtmlFails(HtmlTarget(opts))
          /\ outcome' = outcome
          /\ Fail("OutputWriteError")
    /\ UNCHANGED <<opts, data, warnings, template, html>>
    /\ UNCHANGED pdfVars

\* No output path and no htmlOnly: nothing is persisted.
RenderOnly ==
    /\ pc = "RENDERED"
    /\ UNCHANGED nonCliVars
    /\ readError' = readError
    /\ OutputMode(opts) = "none"
    /\ Finish
    /\ UNCHANGED <<opts, data, warnings, template, html, files, writes, outcome>>
    /\ UNCHANGED pdfVars

\* else if (...endsWith('.pdf')) await this.generatePdf(htmlContent, outputPath):
\* generatePdf calls puppeteer.launch and awaits it.
GeneratePdf ==
    /\ pc = "RENDERED"
    /\ UNCHANGED nonCliVars
    /\ readError' = readError
    /\ OutputMode(opts) = "pdf"
    /\ launches' = launches + 1
    /\ pc' = "PDF_LAUNCH"
    /\ UNCHANGED <<opts, data, warnings, template, html, files, writes, outcome,
                   error, exitCode, browser, pages, pdfCalls, caught, pending>>

\* A renderer call rejected: control enters the catch block.
Catch(step) ==
    /\ caught' = step
    /\ pc' = "CATCH"

\* puppeteer.launch settles.
LaunchSettles ==
    /\ pc = "PDF_LAUNCH"
    /\ UNCHANGED nonCliVars
    /\ readError' = readError
    /\ \/ /\ browser' = "open"
          /\ pc' = "PDF_NEWPAGE"
          /\ caught' = caught
       \/ /\ Catch("launch")
          /\ browser' = browser
    /\ UNCHANGED <<opts, data, warnings, template, html, files, writes, outcome,
                   error, exitCode, launches, pages, pdfCalls, pending>>

\* browser.newPage settles.
NewPageSettles ==
    /\ pc = "PDF_NEWPAGE"
    /\ UNCHANGED nonCliVars
    /\ readError' = readError
    /\ \/ /\ pages' = pages + 1
          /\ pc' = "PDF_SETCONTENT"
          /\ caught' = caught
       \/ /\ Catch("newPage")
          /\ pages' = pages
    /\ UNCHANGED <<opts, data, warnings, template, html, files, writes, outcome,
                   error, exitCode, browser, launches, pdfCalls, pending>>

\* page.setContent settles; on success page.pdf({path: outputPath, ...}) is called.
SetContentSettles ==
    /\ pc = "PDF_SETCONTENT"
    /\ UNCHANGED nonCliVars
    /\ readError' = readError
    /\ \/ /\ pdfCalls' = Append(pdfCalls, opts.output)
          /\ pc' = "PDF_PDF"
          /\ caught' = caught
       \/ /\ Catch("setContent")
          /\ pdfCalls' = pdfCalls
    /\ UNCHANGED <<opts, data, warnings, template, html, files, writes, outcome,
                   error, exitCode, browser, launches, pages, pending>>

\* PdfSettles of a generatePdf in which a statement after page.pdf throws:
\* the PDF is written and control still enters the catch block.
PdfSettlesThenFallsBack ==
    /\ pc = "PDF_PDF"
    /\ UNCHANGED nonCliVars
    /\ readError' = readError
    /\ \/ /\ files' = Written(opts.output, "pdf", html)
          /\ outcome' = "PDF_WRITTEN"
          /\ Catch("pdf")
          /\ pending' = pending
       \/ /\ Catch("pdf")
          /\ UNCHANGED <<files, outcome, pending>>
    /\ UNCHANGED <<opts, data, warnings, template, html, writes,
                   error, exitCode, browser, launches, pages, pdfCalls>>

\* page.pdf settles: the browser wrote the document, or the call rejected.
PdfSettles ==
    /\ pc = "PDF_PDF"
    /\ UNCHANGED nonCliVars
    /\ readError' = readError
    /\ \/ /\ files' = Written(opts.output, "pdf", html)
          /\ outcome' = "PDF_WRITTEN"
          /\ pending' = "return"
          /\ pc' = "FINALLY"
          /\ caught' = caught
       \/ /\ Catch("pdf")
          /\ UNCHANGED <<files, outcome, pending>>
    /\ UNCHANGED <<opts, data, warnings, template, html, writes,
                   error, exitCode, browser, launches, pages, pdfCalls>>

\* catch (error) { ... await this.saveHtml(htmlContent, htmlPath) }
Fallback ==
    /\ pc = "CATCH"
    /\ UNCHANGED nonCliVars
    /\ readError' = readError
    /\ \/ /\ SaveHtmlOk(FallbackHtmlPath(opts.output))
          /\ outcome' = "PDF_FAILED_FALLBACK_TO_HTML"
          /\ pending' = "return"
       \/ /\ SaveHtmlFails(FallbackHtmlPath(opts.output))
          /\ outcome' = outcome
          /\ pending' = "throw"
    /\ pc' = "FINALLY"
    /\ UNCHANGED <<opts, data, warnings, template, html,
                   error, exitCode, browser, launches, pages, pdfCalls, caught>>

\* finally { if (browser) await browser.close() }, then generatePdf returns
\* (generate logs and returns) or rethrows what saveHtml raised.
Finally ==
    /\ pc = "FINALLY"
    /\ UNCHANGED nonCliVars
    /\ readError' = readError
    /\ browser' = IF ClosesBrowser(browser) THEN "closed" ELSE browser
    /\ IF pending = "return" THEN Finish ELSE Fail("OutputWriteError")
    /\ UNCHANGED <<opts, data, warnings, template, html, files, writes, outcome,
                   launches, pages, pdfCalls, caught, pending>>

\* The steps of the run that the process and the file system take.
ProgramStep ==
    \/ LoadJsonData
    \/ ValidateData
    \/ LoadTemplate
    \/ RenderHtml
    \/ GenerateHtml
    \/ RenderOnly
    \/ GeneratePdf
    \/ Fallback
    \/ Finally

\* The headless browser answering a call generatePdf awaits.
RendererStep ==
    \/ LaunchSettles
    \/ NewPageSettles
    \/ SetContentSettles
    \/ PdfSettles

Next == ProgramStep \/ RendererStep

Spec == Init /\ [][Next]_vars

\* The event loop resumes generate whenever the file system has answered;
\* generatePdf sets no timer, so nothing makes the browser answer.
FairSpec == Spec /\ WF_vars(ProgramStep)

Ended == pc \in {"DONE", "FAILED"}

(***************************************************************************)
(* The helpers and accessors, called on their own                          *)
(***************************************************************************)
\* No run of generate is under way.
CliIdle ==
    /\ opts = [output |-> NoPath, htmlOnly |-> FALSE, validateOnly |-> FALSE]
    /\ CliStart

\* One call is about to be made: of the join helpers, or of setNestedValue
\* followed by getNestedValue.
PureInit ==
    /\ CliIdle
    /\ EdOff
    /\ joinOut = NoJoinOut
    /\ nvOut = NoNvOut
    /\ \/ /\ joinArg \in JoinArgs
          /\ nvArgs = NoNvArgs
       \/ /\ joinArg = NoJoinArg
          /\ nvArgs \in [obj : NvDocs, path : NvPaths, value : NvValues]

\* {{join x}} in the generator and in the editor.
CallJoin ==
    /\ joinArg # NoJoinArg
    /\ joinOut = NoJoinOut
    /\ joinOut' = [cli |-> JoinCli(joinArg), editor |-> JoinEditor(joinArg)]
    /\ UNCHANGED <<cliVars, edVars, joinArg, nvArgs, nvOut>>

\* setNestedValue(obj, path, value), then getNestedValue(obj, path).
CallSetNestedValue ==
    /\ nvArgs # NoNvArgs
    /\ nvOut = NoNvOut
    /\ nvOut' =
          IF SetNestedThrows(nvArgs.obj, nvArgs.path)
          THEN [threw |-> TRUE, obj |-> nvArgs.obj,
                got |-> GetNestedValue(nvArgs.obj, nvArgs.path)]
          ELSE LET after == SetNestedValue(nvArgs.obj, nvArgs.path, nvArgs.value)
               IN [threw |-> FALSE, obj |-> after,
                   got |-> GetNestedValue(after, nvArgs.path)]
    /\ UNCHANGED <<cliVars, edVars, joinArg, joinOut, nvArgs>>

PureNext == CallJoin \/ CallSetNestedValue

PureSpec == PureInit /\ [][PureNext]_vars

(***************************************************************************)
(* The editor page: construction, role loads, edits, reloads               *)
(***************************************************************************)
notEdVars == <<cliVars, pureVars>>

\* new CVEditor() on a first visit ran to init's await: no saved role, so
\* loadRole('backend') is awaiting its fetch.
EditorInit ==
    /\ CliIdle
    /\ PureIdle
    /\ initPc = "awaitLoadRole"
    /\ currentRole = "backend"
    /\ cvData = EmptyObj
    /\ schema = EmptyObj
    /\ editorTemplate = ""
    /\ shared = {}
    /\ localStorage = EmptyStorage
    /\ loads = <<[role |-> "backend", stage |-> "fetch", overlapped |-> FALSE]>>
    /\ formReady = FALSE
    /\ last = Ran("construct", NoItem, "")
    /\ edits = 0
    /\ reloads = 0

\* The page is reloaded: the constructor and init run to init's await.
Reload ==
    /\ initPc # "off"
    /\ reloads < MaxReloads
    /\ LET savedRole == LoadFromStorage(localStorage.currentRole)
           role == IF Tag(savedRole) \in FalsyTags THEN "backend" ELSE Tag(savedRole)
       IN /\ currentRole' = role
          /\ loads' = <<[role |-> role, stage |-> "fetch", overlapped |-> FALSE]>>
    /\ initPc' = "awaitLoadRole"
    /\ cvData' = EmptyObj
    /\ schema' = EmptyObj
    /\ editorTemplate' = ""
    /\ shared' = {}
    /\ formReady' = FALSE
    /\ last' = Ran("construct", NoItem, "")
    /\ reloads' = reloads + 1
    /\ UNCHANGED <<localStorage, edits>>
    /\ UNCHANGED notEdVars

\* The change listener of roleSelect: saveToStorage, then loadRole(r) up to
\* its first await.
RoleSelectChange(r) ==
    /\ initPc # "off"
    /\ Len(loads) < MaxLoads
    /\ r # currentRole
    /\ localStorage' = SaveToStorage(localStorage, "currentRole", Leaf(r))
    /\ currentRole' = r
    /\ loads' = Append(loads, [role |-> r, stage |-> "fetch",
                               overlapped |-> \E i \in DOMAIN loads : Pending(loads[i])])
    /\ last' = Ran("roleSelect", NoItem, "")
    /\ UNCHANGED <<initPc, cvData, schema, editorTemplate, shared, formReady,
                   edits, reloads>>
    /\ UNCHANGED notEdVars

\* loadRole call i moves on to its next await.
LoadAwaits(i, stage) ==
    /\ loads' = [loads EXCEPT ![i].stage = stage]
    /\ last' = Ran("loadRole", NoItem, "")
    /\ UNCHANGED <<initPc, currentRole, localStorage, formReady, edits, reloads>>

\* loadRole call i returns, with this.cvData, this.schema and this.template
\* as given: after the UI update, or after the catch block's message.  When
\* init awaits this call, init goes on: generateForm, then the saved document
\* is spread over this.cvData.
LoadEnds(i, cv, sch, sh, tpl, ok) ==
    LET initGoesOn == i = 1 /\ initPc = "awaitLoadRole"
        savedData == LoadFromStorage(localStorage.cvData)
        restores == initGoesOn /\ Tag(savedData) \notin FalsyTags
    IN /\ loads' = [loads EXCEPT ![i].stage = IF ok THEN "done" ELSE "failed"]
       /\ schema' = sch
       /\ editorTemplate' = tpl
       /\ cvData' = IF restores THEN Merge(cv, savedData) ELSE cv
       /\ shared' = IF restores THEN MergeShared(cv, savedData, sh) ELSE sh
       /\ formReady' = (formReady \/ ok \/ initGoesOn)
       /\ initPc' = IF initGoesOn THEN "done" ELSE initPc
       /\ last' = Ran("loadRole", NoItem, IF ok THEN "" ELSE RoleErrorMessage)
       /\ UNCHANGED <<currentRole, localStorage, edits, reloads>>

\* await fetch(`./cv-data/${role}/cv-schema.json`) settles.
FetchSettles(i) ==
    /\ loads[i].stage = "fetch"
    /\ \E response \in {"ok", "not ok", "rejected"} :
          IF response = "ok"
          THEN /\ LoadAwaits(i, "json")
               /\ UNCHANGED <<cvData, schema, editorTemplate, shared>>
          ELSE LoadEnds(i, cvData, schema, shared, editorTemplate, FALSE)
    /\ UNCHANGED notEdVars

\* await cvSchemaResponse.json() settles.
JsonSettles(i) ==
    /\ loads[i].stage = "json"
    /\ \E parsed \in BOOLEAN :
          LET doc == RoleDoc(loads[i].role)
          IN IF ~parsed
             THEN LoadEnds(i, cvData, schema, shared, editorTemplate, FALSE)
             ELSE IF editorTemplate = ""
             THEN /\ LoadAwaits(i, "template")
                  /\ schema' = doc
                  /\ cvData' = doc
                  /\ shared' = {<<>>}
                  /\ UNCHANGED editorTemplate
             ELSE LoadEnds(i, doc, doc, {<<>>}, editorTemplate, TRUE)
    /\ UNCHANGED notEdVars

\* await fetch('./cv-templates/template-1.html') settles.
TemplateSettles(i) ==
    /\ loads[i].stage = "template"
    /\ \E response \in {"ok", "not ok", "rejected"} :
          IF response = "ok"
          THEN /\ LoadAwaits(i, "text")
               /\ UNCHANGED <<cvData, schema, editorTemplate, shared>>
          ELSE LoadEnds(i, cvData, schema, shared, editorTemplate, FALSE)
    /\ UNCHANGED notEdVars

\* await templateResponse.text() settles.
TextSettles(i) ==
    /\ loads[i].stage = "text"
    /\ \E read \in BOOLEAN :
          IF read
          THEN LoadEnds(i, cvData, schema, shared, "template-1", TRUE)
          ELSE LoadEnds(i, cvData, schema, shared, editorTemplate, FALSE)
    /\ UNCHANGED notEdVars

\* The input listener of a form field: updateDataFromForm(field).  A
\* TypeError of setNestedValue leaves the handler before anything is stored.
UpdateDataFromForm(field, text) ==
    /\ formReady
    /\ edits < MaxEdits
    /\ edits' = edits + 1
    /\ IF SetNestedThrows(cvData, field.name)
       THEN /\ last' = Ran("updateDataFromForm", text, "")
            /\ UNCHANGED <<cvData, schema, shared, localStorage>>
       ELSE LET after == SetNestedValue(cvData, field.name, FormValue(field, text))
            IN /\ cvData' = after
               /\ schema' = SchemaAfterSet(schema, after, field.name, shared)
               /\ shared' = SharedAfterSet(field.name, shared)
               /\ localStorage' = SaveToStorage(localStorage, "cvData", after)
               /\ last' = Ran("updateDataFromForm", text, "")
    /\ UNCHANGED <<initPc, currentRole, editorTemplate, loads, formReady, reloads>>
    /\ UNCHANGED notEdVars

\* this.cvData = data; saveToStorage('cvData', this.cvData)
ReplaceDocument(v) ==
    /\ cvData' = v
    /\ shared' = {}
    /\ localStorage' = SaveToStorage(localStorage, "cvData", v)

\* The input listener of the JSON editor: updateFromJSON(jsonText).
UpdateFromJSON(jsonText) ==
    /\ initPc # "off"
    /\ edits < MaxEdits
    /\ edits' = edits + 1
    /\ IF JsonParse(jsonText).threw
       THEN /\ last' = Ran("updateFromJSON", jsonText, InvalidJsonMessage)
            /\ UNCHANGED <<cvData, shared, localStorage>>
       ELSE /\ ReplaceDocument(JsonParse(jsonText).value)
            /\ last' = Ran("updateFromJSON", jsonText, "")
    /\ UNCHANGED <<initPc, currentRole, schema, editorTemplate, loads, formReady,
                   reloads>>
    /\ UNCHANGED notEdVars

\* The change listener of fileInput: loadFile(file), taken at the moment
\* file.text() settles (the call itself changes nothing before its await).
LoadFile(file) ==
    /\ initPc # "off"
    /\ edits < MaxEdits
    /\ edits' = edits + 1
    /\ IF file = NoFile
       THEN /\ last' = Ran("loadFile", file, "")
            /\ UNCHANGED <<cvData, shared, localStorage>>
       ELSE IF JsonParse(file).threw
       THEN /\ last' = Ran("loadFile", file, FileErrorMessage)
            /\ UNCHANGED <<cvData, shared, localStorage>>
       ELSE /\ ReplaceDocument(JsonParse(file).value)
            /\ last' = Ran("loadFile", file, FileLoadedMessage)
    /\ UNCHANGED <<initPc, currentRole, schema, editorTemplate, loads, formReady,
                   reloads>>
    /\ UNCHANGED notEdVars

EditorNext ==
    \/ Reload
    \/ \E r \in Roles : RoleSelectChange(r)
    \/ \E i \in DOMAIN loads : FetchSettles(i)
    \/ \E i \in DOMAIN loads : JsonSettles(i)
    \/ \E i \in DOMAIN loads : TemplateSettles(i)
    \/ \E i \in DOMAIN loads : TextSettles(i)
    \/ \E field \in FormFields : \E text \in FormInputs(field) :
          UpdateDataFromForm(field, text)
    \/ \E jsonText \in JsonInputs : UpdateFromJSON(jsonText)
    \/ \E file \in JsonInputs \cup {Unreadable, NoFile} : LoadFile(file)

EditorSpec == EditorInit /\ [][EditorNext]_vars

\* Where cvData and schema are one object they hold the same value.
SharedIsSame ==
    \A p \in shared :
        /\ p \in DOMAIN cvData /\ p \in DOMAIN schema
        /\ cvData[p] = "obj"
        /\ Subtree(cvData, p) = Subtree(schema, p)
(***************************************************************************)
(* Claims                                                                  *)
(***************************************************************************)
\* An output path with its trailing .pdf replaced by .html.
SuffixHtmlPath(p) == SubSeq(p, 1, Len(p) - Len(PDF)) \o HTML

HtmlFile(path) == [path |-> path, fmt |-> "html", body |-> html]

\* C1: whenever the renderer failed at some step (and saving the fallback
\* raised no error of its own), the run ends normally with exit status 0 and
\* the rendered HTML is in the file named like the output path with its
\* .pdf suffix replaced by .html.
C1_RendererFailureFallsBack ==
    (caught # "none" /\ Ended /\ error # "OutputWriteError")
        => /\ pc = "DONE"
           /\ exitCode = "zero"
           /\ HtmlFile(SuffixHtmlPath(opts.output)) \in files

\* C2: every path the HTML fallback writes to is the output path with its
\* trailing .pdf replaced by .html.
C2_FallbackPathReplacesSuffix ==
    caught # "none" =>
        \A i \in DOMAIN writes : writes[i].path = SuffixHtmlPath(opts.output)

\* C3: with no output path and validateOnly unset, whatever htmlOnly is,
\* nothing is written, the renderer is not invoked, and once the document is
\* rendered the run completes successfully.
C3_NoOutputRendersOnly ==
    (opts.output = NoPath /\ ~opts.validateOnly)
        => /\ writes = <<>>
           /\ files = {}
           /\ launches = 0
           /\ (html # NoHtml /\ Ended) => (pc = "DONE" /\ exitCode = "zero")

\* C4: with validateOnly set, once the input has loaded the template is never
\* read, nothing is rendered or written, the renderer is never launched, and
\* the run ends with exit status 0.
C4_ValidateOnlyStops ==
    (opts.validateOnly /\ data # NoDoc)
        => /\ template = NoTemplate
           /\ html = NoHtml
           /\ writes = <<>>
           /\ files = {}
           /\ launches = 0
           /\ pc # "LOADED" => (pc = "DONE" /\ exitCode = "zero")

\* The case of C5: htmlOnly is set or the output path ends in .html, and
\* validateOnly is unset.
HtmlCase ==
    /\ ~opts.validateOnly
    /\ opts.htmlOnly \/ EndsWith(opts.output, HTML)

\* C5: in the HTML case the renderer is never invoked, saveHtml is called at
\* most once and only with the given output path and the rendered HTML, and a
\* run that completes has written exactly that file; a rendered run that does
\* not complete failed on that write.
C5_HtmlWrittenToGivenPath ==
    HtmlCase
        => /\ launches = 0
           /\ pdfCalls = <<>>
           /\ Len(writes) <= 1
           /\ \A i \in DOMAIN writes :
                writes[i].path = opts.output /\ writes[i].body = html
           /\ files \subseteq {HtmlFile(opts.output)}
           /\ pc = "DONE" => (html # NoHtml /\ files = {HtmlFile(opts.output)})
           /\ (html # NoHtml /\ pc = "FAILED")
                => (error = "OutputWriteError" /\ Len(writes) = 1)

\* A completed --html-only run whose output path ends in .pdf.
C5_Witness ==
    /\ HtmlCase
    /\ opts.htmlOnly
    /\ EndsWith(opts.output, PDF)
    /\ pc = "DONE"
    /\ files = {HtmlFile(opts.output)}

\* The case of C6: a path is given that ends in neither .html nor .pdf, and
\* neither flag is set.
DefaultCase ==
    /\ ~opts.validateOnly
    /\ ~opts.htmlOnly
    /\ Truthy(opts.output)
    /\ ~EndsWith(opts.output, HTML)
    /\ ~EndsWith(opts.output, PDF)

\* C6: in the default case the renderer is not invoked, the only path written
\* is the output path followed by .html, with the rendered HTML, and a run
\* that completes has written exactly that file.
C6_AmbiguousExtensionAppendsHtml ==
    DefaultCase
        => /\ launches = 0
           /\ pdfCalls = <<>>
           /\ Len(writes) <= 1
           /\ \A i \in DOMAIN writes :
                writes[i].path = opts.output \o HTML /\ writes[i].body = html
           /\ files \subseteq {HtmlFile(opts.output \o HTML)}
           /\ pc = "DONE"
                => (html # NoHtml /\ files = {HtmlFile(opts.output \o HTML)})

\* A completed run of the default case, here with .pdf inside the path.
C6_Witness ==
    /\ DefaultCase
    /\ pc = "DONE"
    /\ IndexOf(opts.output, PDF) > 0
    /\ files = {HtmlFile(opts.output \o HTML)}

\* The case of C7: both flags unset, the output path ends in .pdf, the input
\* and the template loaded and the document rendered, and generate has gone
\* on from rendering.
PdfCase ==
    /\ ~opts.validateOnly
    /\ ~opts.htmlOnly
    /\ EndsWith(opts.output, PDF)
    /\ html # NoHtml
    /\ pc # "RENDERED"

\* C7: the renderer is launched exactly once in the PDF case and never
\* otherwise, and page.pdf is called at most once, with the given output path.
C7_RendererInvokedIffPdf ==
    /\ launches = (IF PdfCase THEN 1 ELSE 0)
    /\ Len(pdfCalls) <= 1
    /\ \A i \in DOMAIN pdfCalls : pdfCalls[i] = opts.output

\* A run that launched the renderer and converted to the output path.
C7_Witness ==
    /\ launches = 1
    /\ pdfCalls = <<opts.output>>
    /\ outcome = "PDF_WRITTEN"
    /\ pc = "DONE"

C9_PdfConversionEnds ==
    (pc = "PDF_LAUNCH") ~> (outcome = "PDF_WRITTEN" \/ caught # "none")

\* C10: validateData never raises: once a document has loaded and validation
\* has run, the run has not failed in the validator, and without validateOnly
\* it has gone on to template loading.
C10_ValidatorNeverFails ==
    (data # NoDoc /\ pc # "LOADED")
        => /\ error # "TypeError"
           /\ ~opts.validateOnly
                => (pc \in {"VALIDATED", "TEMPLATE", "RENDERED"}
                    \/ template # NoTemplate \/ error \in {"TemplateNotFound", "TemplateLoadError"})
\* C11 as stated: the warnings are, in order, personal_info iff that field
\* is absent, summary iff that field is absent, name iff personal_info is
\* present without a name sub-field (checked where validateData returned).
C11_WarningsIffAbsent ==
    (data # NoDoc /\ pc # "LOADED" /\ error # "TypeError")
        => warnings =
             (IF data.pi = "absent" THEN <<"personal_info">> ELSE <<>>)
             \o (IF data.summary = "absent" THEN <<"summary">> ELSE <<>>)
             \o (IF data.pi \in {"falsy", "text", "obj_noname"}
                 THEN <<"name">> ELSE <<>>)

\* C11 amended: the warnings are, in order, personal_info iff that field is
\* absent or falsy, summary iff that field is absent or falsy, name iff
\* personal_info is truthy and its name is absent or falsy; for the document
\* null validateData raises and no warning is emitted.
C11_WarningsIffFalsy ==
    (data # NoDoc /\ pc # "LOADED")
        => IF data.kind = "null"
           THEN warnings = <<>> /\ error = "TypeError"
           ELSE warnings =
                  (IF data.pi \in {"absent", "falsy"}
                   THEN <<"personal_info">> ELSE <<>>)
                  \o (IF data.summary \in {"absent", "falsy"}
                      THEN <<"summary">> ELSE <<>>)
                  \o (IF data.pi \in {"text", "obj_noname", "obj_falsyname"}
                      THEN <<"name">> ELSE <<>>)

\* A validated document whose summary is present but empty and whose name
\* is present but empty: both are warned about.
C11_Witness ==
    /\ data.kind = "object"
    /\ data.summary = "falsy"
    /\ data.pi = "obj_falsyname"
    /\ warnings = <<"summary", "name">>

\* The errors of the loader and of the binder.
LoaderBinderErrors ==
    {"InputNotFound", "InputMalformed", "Unknown",
     "TemplateNotFound", "TemplateLoadError", "RenderError"}

\* C12: every error other than a renderer failure is fatal: a rejected read,
\* a run that ends without having rendered (validateOnly unset) and a failed
\* saveHtml all end in FAILED with a non-zero exit status; exit status 0 is
\* that of DONE only; after a loader or binder error nothing was written and
\* the renderer was never launched.
C12_OtherErrorsAreFatal ==
    /\ readError # "none" => (pc = "FAILED" /\ exitCode = "nonzero")
    /\ (Ended /\ ~opts.validateOnly /\ html = NoHtml)
          => (pc = "FAILED" /\ exitCode = "nonzero")
    /\ (Ended /\ \E i \in DOMAIN writes : ~writes[i].ok)
          => (pc = "FAILED" /\ exitCode = "nonzero" /\ error = "OutputWriteError")
    /\ pc = "FAILED" => (exitCode = "nonzero" /\ error # "none")
    /\ exitCode = "zero" => (pc = "DONE" /\ error = "none")
    /\ error \in LoaderBinderErrors
          => (files = {} /\ writes = <<>> /\ launches = 0)

\* A run that failed on rendering, with nothing written.
C12_Witness ==
    /\ pc = "FAILED"
    /\ error = "RenderError"
    /\ exitCode = "nonzero"
    /\ files = {}

\* C13: a rejected read fails the run with exactly one class: InputNotFound
\* for a missing file, InputMalformed for content that is not JSON, Unknown
\* for any other failure; the run stops there with no document.
C13_ReadFailureClassified ==
    readError # "none"
        => /\ error = (IF readError = "ENOENT" THEN "InputNotFound"
                       ELSE IF readError = "SyntaxError" THEN "InputMalformed"
                       ELSE "Unknown")
           /\ pc = "FAILED"
           /\ data = NoDoc
           /\ warnings = <<>>
           /\ template = NoTemplate

\* A read that failed on content that is not JSON.
C13_Witness ==
    /\ readError = "SyntaxError"
    /\ error = "InputMalformed"
    /\ pc = "FAILED"

\* The position of a stage in the order of generate.
StageRank(p) ==
    CASE p = "START" -> 0
      [] p = "LOADED" -> 1
      [] p = "VALIDATED" -> 2
      [] p = "TEMPLATE" -> 3
      [] p = "RENDERED" -> 4
      [] p = "PDF_LAUNCH" -> 5
      [] p = "PDF_NEWPAGE" -> 6
      [] p = "PDF_SETCONTENT" -> 7
      [] p = "PDF_PDF" -> 8
      [] p = "CATCH" -> 9
      [] p = "FINALLY" -> 10
      [] p \in {"DONE", "FAILED"} -> 11

\* What holds of every state of a run that follows the stage order.
StageOrderInv ==
    /\ template # NoTemplate => (data # NoDoc /\ pc \notin {"START", "LOADED"})
    /\ html # NoHtml => template # NoTemplate
    /\ (writes # <<>> \/ files # {} \/ launches > 0) => html # NoHtml
    /\ Cardinality(files) <= 1
    /\ outcome = "HTML_WRITTEN"
          => (files = {HtmlFile(HtmlTarget(opts))} /\ launches = 0)
    /\ outcome = "PDF_WRITTEN"
          => (files = {[path |-> opts.output, fmt |-> "pdf", body |-> html]}
              /\ writes = <<>>)
    /\ outcome = "PDF_FAILED_FALLBACK_TO_HTML"
          => (caught # "none" /\ \A f \in files : f.fmt = "html")
    /\ pc = "DONE"
          => (outcome = "none"
                <=> (opts.validateOnly \/ OutputMode(opts) = "none"))

\* What holds of every step of a run that follows the stage order.
StageOrderStep ==
    /\ pc' # pc => StageRank(pc') > StageRank(pc)
    /\ (pc' = "LOADED" /\ pc # "LOADED") => pc = "START"
    /\ (pc' = "VALIDATED" /\ pc # "VALIDATED") => pc = "LOADED"
    /\ (pc' = "RENDERED" /\ pc # "RENDERED") => (pc = "TEMPLATE" /\ warnings' = warnings)
    /\ outcome' # outcome => (outcome = "none" /\ html # NoHtml /\ html' = html)
    /\ (pc' = "DONE" /\ pc # "DONE")
          => \/ opts.validateOnly /\ pc = "LOADED"
             \/ pc = "RENDERED" /\ outcome' \in {"none", "HTML_WRITTEN"}
             \/ pc = "FINALLY" /\ outcome \in {"PDF_WRITTEN", "PDF_FAILED_FALLBACK_TO_HTML"}

\* C18: a run goes through the stages in order, each at most once: the
\* template is read only after the input has loaded and been validated, no
\* output action precedes rendering, at most one of HTML_WRITTEN, PDF_WRITTEN
\* and PDF_FAILED_FALLBACK_TO_HTML occurs, at most one file is written, and
\* DONE follows an outcome, a validateOnly stop or a render-only run.
C18_StageOrder == [](StageOrderInv) /\ [][StageOrderStep]_vars

\* A completed run whose PDF conversion failed and fell back to HTML.
C18_Witness ==
    /\ pc = "DONE"
    /\ outcome = "PDF_FAILED_FALLBACK_TO_HTML"
    /\ caught = "setContent"
    /\ Cardinality(files) = 1
\* The elements of a sequence with a comma and a space between neighbours.
RECURSIVE JoinedByCommaSpace(_)
JoinedByCommaSpace(items) ==
    IF Len(items) = 0 THEN <<>>
    ELSE IF Len(items) = 1 THEN items[1]
    ELSE JoinedByCommaSpace(SubSeq(items, 1, Len(items) - 1))
           \o <<",", " ">> \o items[Len(items)]

\* C15: join returns the elements of an array with ", " between them, so
\* `a, b, c` for [a, b, c], and the empty string for a value that is absent
\* or not an array; the editor's helper returns what the generator's does.
C15_JoinHelper ==
    joinOut # NoJoinOut
        => /\ joinOut.cli = (IF joinArg.kind = "array"
                             THEN JoinedByCommaSpace(joinArg.items) ELSE <<>>)
           /\ joinOut.editor = joinOut.cli
           /\ joinArg.items = << <<"a">>, <<"b">>, <<"c">> >>
                => joinOut.cli = <<"a", ",", " ", "b", ",", " ", "c">>

\* Both helpers were called with ["a", "b", "c"].
C15_Witness ==
    /\ joinArg = [kind |-> "array", items |-> << <<"a">>, <<"b">>, <<"c">> >>]
    /\ joinOut.editor = <<"a", ",", " ", "b", ",", " ", "c">>

\* The paths the frame condition of C17 is checked on.
NvFramePaths == SeqsUpTo(NvKeys, MaxPathLen + 1) \ {<<>>}

\* Every path that is neither a prefix nor an extension of the path written
\* gets the same value before and after.
NvFrame ==
    \A q \in NvFramePaths :
        (~IsPrefix(q, nvArgs.path) /\ ~IsPrefix(nvArgs.path, q))
            => GetNestedValue(nvOut.obj, q) = GetNestedValue(nvArgs.obj, q)

\* A path with an absent intermediate key gets undefined.
NvAbsentIsUndefined ==
    \A q \in NvFramePaths :
        (\E r \in ProperPrefixes(q) : r \notin DOMAIN nvOut.obj)
            => GetNestedValue(nvOut.obj, q) = Undefined

\* C17 as stated: for every document, path and value, setNestedValue returns,
\* getNestedValue then gets the value, and unrelated paths keep their values.
C17_SetThenGet ==
    nvOut # NoNvOut
        => /\ ~nvOut.threw
           /\ nvOut.got = nvArgs.value
           /\ NvFrame
           /\ NvAbsentIsUndefined

\* The document is not an object, or a proper prefix of the path holds a
\* truthy scalar.
NvBlocked ==
    \/ Tag(nvArgs.obj) # "obj"
    \/ \E n \in 1..(Len(nvArgs.path) - 1) :
          LET q == SubSeq(nvArgs.path, 1, n)
          IN q \in DOMAIN nvArgs.obj /\ nvArgs.obj[q] \notin {"obj", "null", ""}

\* C17 amended: setNestedValue raises exactly when the document is not an
\* object or a truthy scalar lies on the way, and then changes nothing;
\* otherwise every intermediate is an object afterwards, getNestedValue gets
\* the value, and unrelated paths keep their values; a path with an absent
\* intermediate key gets undefined.
C17_SetThenGetUnlessScalarOnPath ==
    nvOut # NoNvOut
        => /\ nvOut.threw <=> NvBlocked
           /\ nvOut.threw => nvOut.obj = nvArgs.obj
           /\ ~nvOut.threw
                => /\ nvOut.got = nvArgs.value
                   /\ \A q \in ProperPrefixes(nvArgs.path) : nvOut.obj[q] = "obj"
           /\ NvFrame
           /\ NvAbsentIsUndefined

\* setNestedValue created an absent intermediate object and wrote null below it.
C17_Witness ==
    /\ nvOut # NoNvOut
    /\ ~nvOut.threw
    /\ Len(nvArgs.path) = 2
    /\ SubSeq(nvArgs.path, 1, 1) \notin DOMAIN nvArgs.obj
    /\ nvArgs.value = Null
    /\ nvOut.got = Null

\* init goes on after the loadRole call it awaited, on a page that was
\* reloaded and on which no other role was selected.
ReloadedInitGoesOn ==
    /\ initPc = "awaitLoadRole"
    /\ initPc' = "done"
    /\ reloads > 0
    /\ Len(loads) = 1

\* C16: after edit operations, each of which stored the document under
\* cvgen_cvData, a page reload restores cvData equal to the document as it
\* was after the last edit (the stored one).
C16_EditsSurviveReload ==
    [][(ReloadedInitGoesOn /\ localStorage.cvData # NoItem)
          => cvData' = JsonParse(localStorage.cvData).value]_vars

\* The step is updateFromJSON or loadFile given text that is not JSON.
UnparsableInputStep ==
    /\ edits' = edits + 1
    /\ last'.op \in {"updateFromJSON", "loadFile"}
    /\ last'.text \notin {NoFile, Unreadable}
    /\ ~last'.text.ok

\* C19: when updateFromJSON or loadFile is given text that does not parse,
\* cvData and the item under cvgen_cvData stay what they were, and an error
\* message is shown.
C19_InvalidJsonChangesNothing ==
    [][UnparsableInputStep
          => /\ cvData' = cvData
             /\ localStorage' = localStorage
             /\ last'.shown = IF last'.op = "loadFile" THEN FileErrorMessage
                              ELSE InvalidJsonMessage]_vars

\* updateFromJSON was given unparsable text while a stored document existed.
C19_Witness ==
    /\ last = Ran("updateFromJSON", BadText("{oops"), InvalidJsonMessage)
    /\ localStorage.cvData = JsonStringify(AnnDoc)
    /\ cvData = AnnDoc

\* Role loads overlapped, every loadRole call of the page has completed
\* successfully, and the document was never edited.
OverlappingLoadsDone ==
    /\ \E i \in DOMAIN loads : loads[i].overlapped
    /\ \A i \in DOMAIN loads : loads[i].stage = "done"
    /\ edits = 0

\* C20: once overlapping role loads have all completed successfully, cvData
\* and schema are those of currentRole, the role selected last, whatever
\* order the responses arrived in.
C20_LastSelectedRoleWins ==
    OverlappingLoadsDone
        => /\ cvData = RoleDoc(currentRole)
           /\ schema = RoleDoc(currentRole)

\* loadRole call i failed, every earlier call of the page had completed
\* successfully before it was made, nothing was called after it, and the
\* document was never edited.
LoadFailedAlone(i) ==
    /\ loads[i].stage = "failed"
    /\ ~loads[i].overlapped
    /\ i = Len(loads)
    /\ \A j \in 1..(i - 1) : loads[j].stage = "done"
    /\ edits = 0

\* What cvData and schema were when that call was made: the constructor's
\* {} for init's call, otherwise the data of the role loaded before.
DocBeforeLoad(i) == IF i = 1 THEN EmptyObj ELSE RoleDoc(loads[i - 1].role)

\* C21: a loadRole call that fails at any step (role data fetch, role data
\* parse, template fetch) leaves cvData and schema as they were before the
\* call and shows an error message.
C21_FailedLoadChangesNothing ==
    \A i \in DOMAIN loads :
        LoadFailedAlone(i)
            => /\ cvData = DocBeforeLoad(i)
               /\ schema = DocBeforeLoad(i)
               /\ last = Ran("loadRole", NoItem, RoleErrorMessage)

\* The step is updateDataFromForm, taken when schema equals the data fetched
\* by a loadRole call that succeeded.
FormEditOfLoadedRole ==
    /\ edits' = edits + 1
    /\ last'.op = "updateDataFromForm"
    /\ \E i \in DOMAIN loads :
          loads[i].stage = "done" /\ schema = RoleDoc(loads[i].role)

\* C22: after loadRole(r) succeeded, form-field edits (updateDataFromForm)
\* never change schema: it still equals the role data as it was fetched.
C22_FormEditsKeepSchema ==
    [][FormEditOfLoadedRole => schema' = schema]_vars
====
